---- MODULE Spec2Model ----
(***************************************************************************)
(* Model of custom_components/google_tts/openaitts_engine.py:              *)
(* class OpenAITTSEngine (constructor, get_tts with its one-retry loop)    *)
(* and the helpers it relies on (base64.b64decode).                        *)
(*                                                                         *)
(* Optional values (Python None vs. a value) are sequences of length 0 or  *)
(* 1: None == <<>>, Some(x) == <<x>>.  Strings that the code concatenates  *)
(* are sequences of one-character strings; base64 text is a sequence of    *)
(* character codes (0..63 alphabet value, 64 the pad '=', 65 an ASCII      *)
(* character outside the alphabet); bytes are sequences of 0..255.         *)
(* Exceptions raised by the vendor SDK are subclasses of Exception.        *)
(***************************************************************************)
EXTENDS Integers, Sequences, FiniteSets, TLC

\* engine        the attributes of the OpenAITTSEngine instance
\* given         the voice and model passed to the constructor
\* initAttempts  how often genai.Client was called
\* ctorRaised    the exception that left __init__, if any
\* pc            "new", "ready" (constructed) or "ctor_failed"
\* call          the locals and the observable effects of the current or last
\*               get_tts call: requests sent, log and sleep events, delays,
\*               exceptions caught, last remote outcome, result or exception
\* callsStarted  the number of get_tts calls made
\* twin          under SpecPair, a second call that differs in speed only
VARIABLES engine, given, initAttempts, ctorRaised, pc, call, callsStarted, twin

vars == <<engine, given, initAttempts, ctorRaised, pc, call, callsStarted, twin>>

\* ---------------------------------------------------------------- bounds
MaxB64Len == 4
MaxCalls == 2

\* ------------------------------------------------------------- optionals
None == <<>>
Some(x) == <<x>>
IsNone(o) == o = <<>>
Opt(S) == {None} \cup {Some(x) : x \in S}

\* ------------------------------------------------------------ exceptions
Exc(type, msg, cause) == [type |-> type, msg |-> msg, cause |-> cause]
Ok(v) == [raised |-> None, value |-> v]
Raise(e) == [raised |-> Some(e), value |-> <<>>]

\* ---------------------------------------------------------- input spaces
NL == "\n"
Texts == { <<>>, <<"h", "i">> }
InstructionArgs == { None, Some(<<>>), Some(<<"s", "l", "o", "w", ":">>) }
\* Voices are strings; NotAStr stands for a voice argument that is not a str
\* (the int 123), which the vendor's configuration types reject.
NotAStr == "123 (int)"
VoiceArgs == { None, Some(""), Some("Puck"), Some(NotAStr) }
SpeedArgs == { None, Some(0), Some(2) }
CtorVoices == { "Kore", "Puck" }
CtorModels == { "gemini-2.5-flash-preview-tts" }
CtorSpeed == 1
PAD == 64
SKIP == 65
B64Chars == { 16, PAD }

RECURSIVE SeqsUpTo(_, _)
SeqsUpTo(S, n) ==
  IF n = 0 THEN { <<>> }
  ELSE LET shorter == SeqsUpTo(S, n - 1)
       IN shorter \cup { Append(s, c) : s \in { t \in shorter : Len(t) = n - 1 }, c \in S }

\* Inline data: every text of at most MaxB64Len alphabet/pad characters, and
\* two texts with characters outside the alphabet ("\n", "Q\nQ=\n=").
NoisyB64 == { <<SKIP>>, <<16, SKIP, 16, PAD, SKIP, PAD>> }
B64Strings == SeqsUpTo(B64Chars, MaxB64Len) \cup NoisyB64

\* Shapes of the vendor response object that get_tts traverses.
InlineDatas == [ data : Opt(B64Strings) ]
Parts == [ inlineData : Opt(InlineDatas) ]
PartLists == { <<>> } \cup { <<p>> : p \in Parts }
Contents == [ parts : Opt(PartLists) ]
Candidates == [ content : Opt(Contents) ]
CandidateLists == { <<>> } \cup { <<c>> : c \in Candidates }
Responses == [ candidates : Opt(CandidateLists) ]

RemoteErrors == { Exc("ServerError", "remote", None), Exc("ClientError", "remote", None) }
RemoteOutcomes == { Raise(e) : e \in RemoteErrors } \cup { Ok(r) : r \in Responses }
\* genai.Client(api_key=...) returns a client or raises.
ClientErrors == { Exc("ValueError", "api key", None), Exc("ConnectError", "network", None) }
ClientOutcomes == { Ok("client") } \cup { Raise(e) : e \in ClientErrors }
\* types.PrebuiltVoiceConfig(voice_name=...) validates its argument.
ConfigError == Exc("ValidationError", "voice_name: Input should be a valid string", None)

\* ----------------------------------------------------- base64.b64decode
\* binascii.a2b_base64 in its default (non-strict) mode.
RECURSIVE a2b_base64(_, _, _, _, _, _)
a2b_base64(s, i, quad_pos, leftchar, pads, out) ==
  IF i > Len(s)
  THEN IF quad_pos = 1
       THEN Raise(Exc("binascii.Error", "Invalid base64-encoded string", None))
       ELSE IF quad_pos # 0
       THEN Raise(Exc("binascii.Error", "Incorrect padding", None))
       ELSE Ok(out)
  ELSE LET ch == s[i] IN
       IF ch = PAD
       THEN IF quad_pos >= 2 /\ quad_pos + pads + 1 >= 4
            THEN Ok(out)
            ELSE a2b_base64(s, i + 1, quad_pos, leftchar,
                            IF quad_pos >= 2 THEN pads + 1 ELSE pads, out)
       ELSE IF ch > PAD
       THEN a2b_base64(s, i + 1, quad_pos, leftchar, pads, out)
       ELSE CASE quad_pos = 0 -> a2b_base64(s, i + 1, 1, ch, 0, out)
              [] quad_pos = 1 -> a2b_base64(s, i + 1, 2, ch % 16, 0,
                                            Append(out, (leftchar * 4 + ch \div 16) % 256))
              [] quad_pos = 2 -> a2b_base64(s, i + 1, 3, ch % 4, 0,
                                            Append(out, (leftchar * 16 + ch \div 4) % 256))
              [] quad_pos = 3 -> a2b_base64(s, i + 1, 0, 0, 0,
                                            Append(out, (leftchar * 64 + ch) % 256))

b64decode(data) ==
  IF IsNone(data)
  THEN Raise(Exc("TypeError", "argument should be a bytes-like object or ASCII string", None))
  ELSE a2b_base64(data[1], 1, 0, 0, 0, <<>>)

\* ------------------------------------------------- OpenAITTSEngine.__init__
\* The attributes stored by the constructor, before the client is created.
EngineFields(api_key, voice, model, speed, url) ==
  [ api_key |-> api_key, voice |-> voice, model |-> model, speed |-> speed, url |-> url ]

\* Mutation: the client's exception leaves the constructor unwrapped.
InitClientUnwrapped(clientOutcome) == clientOutcome

\* try: genai.Client(...)  except Exception as e: raise HomeAssistantError(...) from e
InitClient(clientOutcome) ==
  IF IsNone(clientOutcome.raised)
  THEN Ok(clientOutcome.value)
  ELSE Raise(Exc("HomeAssistantError",
                 "Invalid Gemini API key or client initialization failed",
                 clientOutcome.raised))

\* ------------------------------------------------ OpenAITTSEngine.get_tts
max_retries == 1
RetryDelay == 1

\* Mutation: the per-call override is ignored.
ResolveVoiceDefaultOnly(self, voice) == self.voice

\* if voice is None: voice = self._voice
ResolveVoice(self, voice) == IF IsNone(voice) THEN self.voice ELSE voice[1]

\* Mutation: the separating newline is forgotten.
BuildPromptNoNewline(instructions, text) ==
  IF ~IsNone(instructions) /\ instructions[1] # <<>>
  THEN instructions[1] \o text
  ELSE text

\* if instructions: prompt = f"{instructions}\n{text}"  else: prompt = text
\* (None and the empty string are both falsy)
BuildPrompt(instructions, text) ==
  IF ~IsNone(instructions) /\ instructions[1] # <<>>
  THEN instructions[1] \o <<NL>> \o text
  ELSE text

\* if speed is not None: _LOGGER.warning(...)
SpeedWarning(speed) == IF ~IsNone(speed) THEN <<"warning">> ELSE <<>>

\* Mutation: the per-call speed is forwarded in the configuration.
BuildConfigWithSpeed(voice, speed) ==
  IF voice = NotAStr
  THEN Raise(ConfigError)
  ELSE Ok([ response_modalities |-> <<"AUDIO">>, voice_name |-> voice, speed |-> speed ])

\* types.SpeechConfig(...) / types.GenerateContentConfig(...): the
\* configuration, or the exception of the constructors' validation.
BuildConfig(voice, speed) ==
  IF voice = NotAStr
  THEN Raise(ConfigError)
  ELSE Ok([ response_modalities |-> <<"AUDIO">>, voice_name |-> voice ])

\* The arguments of self._client.models.generate_content(...)
Request(self, prompt, config) ==
  [ model |-> self.model, contents |-> prompt, config |-> config ]

\* candidate = response.candidates[0] if getattr(response, "candidates", None)
\*             and len(response.candidates) > 0 else None
FirstCandidate(response) ==
  IF ~IsNone(response.candidates) /\ Len(response.candidates[1]) > 0
  THEN Some(response.candidates[1][1])
  ELSE None

\* getattr(obj, "parts", None) is truthy: obj is not None and obj.parts is a
\* non-empty list
HasParts(content) ==
  /\ ~IsNone(content)
  /\ ~IsNone(content[1].parts)
  /\ Len(content[1].parts[1]) > 0

\* Mutation: a first part without inline data yields empty audio.
ExtractAudioLenient(response) ==
  LET candidate == FirstCandidate(response) IN
  IF IsNone(candidate) \/ ~HasParts(candidate[1].content)
  THEN Raise(Exc("HomeAssistantError", "No audio returned from Gemini TTS", None))
  ELSE LET parts == candidate[1].content[1].parts[1] IN
       IF Len(parts) = 0 \/ IsNone(parts[1].inlineData)
       THEN Ok(<<>>)
       ELSE b64decode(parts[1].inlineData[1].data)

\* Mutation: the inline data is returned as it came, not decoded.
ExtractAudioNoDecode(response) ==
  LET candidate == FirstCandidate(response) IN
  IF IsNone(candidate) \/ ~HasParts(candidate[1].content)
  THEN Raise(Exc("HomeAssistantError", "No audio returned from Gemini TTS", None))
  ELSE LET parts == candidate[1].content[1].parts[1] IN
       IF Len(parts) = 0 \/ IsNone(parts[1].inlineData)
       THEN Raise(Exc("HomeAssistantError", "Malformed response from Gemini TTS", None))
       ELSE IF IsNone(parts[1].inlineData[1].data)
            THEN b64decode(None)
            ELSE Ok(parts[1].inlineData[1].data[1])

\* Response validation and decoding, the part of the try body after the
\* remote call returned.
ExtractAudio(response) ==
  LET candidate == FirstCandidate(response) IN
  IF IsNone(candidate) \/ ~HasParts(candidate[1].content)
  THEN Raise(Exc("HomeAssistantError", "No audio returned from Gemini TTS", None))
  ELSE LET parts == candidate[1].content[1].parts[1] IN
       IF Len(parts) = 0 \/ IsNone(parts[1].inlineData)
       THEN Raise(Exc("HomeAssistantError", "Malformed response from Gemini TTS", None))
       ELSE b64decode(parts[1].inlineData[1].data)

\* The whole try body: the remote call, then validation and decoding.
TryBody(remote) ==
  IF ~IsNone(remote.raised) THEN remote ELSE ExtractAudio(remote.value)

IdleCall ==
  [ status |-> "idle",
    args |-> [ text |-> <<>>, speed |-> None, instructions |-> None, voice |-> None ],
    voice |-> "", prompt |-> <<>>, config |-> None, attempt |-> 0,
    requests |-> <<>>, trace |-> <<>>, delays |-> <<>>, errors |-> <<>>,
    remote |-> None, result |-> None, raised |-> None ]

CallArgs == [ text : Texts, speed : SpeedArgs, instructions : InstructionArgs, voice : VoiceArgs ]

\* get_tts up to the start of the while loop.  The configuration objects are
\* built before the try statement, so an exception of their constructors
\* leaves get_tts as it is.
GetTtsBegin(self, args) ==
  LET voice == ResolveVoice(self, args.voice)
      prompt == BuildPrompt(args.instructions, args.text)
      cfgOutcome == BuildConfig(voice, args.speed)
      entered == [ IdleCall EXCEPT !.args = args, !.voice = voice, !.prompt = prompt,
                                   !.trace = SpeedWarning(args.speed) ]
  IN IF ~IsNone(cfgOutcome.raised)
     THEN [ entered EXCEPT !.status = "raised", !.raised = cfgOutcome.raised,
                           !.trace = @ \o <<"raise">> ]
     ELSE [ entered EXCEPT !.status = "loop", !.config = Some(cfgOutcome.value) ]

\* Mutation: the final error is chained to the first caught exception.
FinalErrorFirstCause(errors) ==
  Exc("HomeAssistantError", "Failed to fetch TTS audio from Gemini after retries",
      Some(errors[1]))

\* The exception that leaves get_tts when no attempt remains.
FinalError(errors) ==
  Exc("HomeAssistantError", "Failed to fetch TTS audio from Gemini after retries",
      Some(errors[Len(errors)]))

\* except Exception as exc: log; retry after the delay if attempt < max_retries,
\* else raise the final error from exc.
ExceptHandler(c, exc) ==
  LET logged == [ c EXCEPT !.trace = @ \o <<"log_exception">>, !.errors = Append(@, exc) ] IN
  IF c.attempt < max_retries
  THEN [ logged EXCEPT !.attempt = @ + 1,
                       !.delays = Append(@, RetryDelay),
                       !.trace = @ \o <<"sleep", "log_retry">> ]
  ELSE [ logged EXCEPT !.status = "raised",
                       !.raised = Some(FinalError(logged.errors)),
                       !.trace = @ \o <<"raise">> ]

\* One iteration of the while loop, given what the remote call does.
GetTtsAttempt(self, c, remote) ==
  LET called == [ c EXCEPT !.requests = Append(@, Request(self, c.prompt, c.config[1])),
                           !.trace = @ \o <<"generate_content">>,
                           !.remote = Some(remote) ]
      body == TryBody(remote)
  IN IF IsNone(body.raised)
     THEN [ called EXCEPT !.status = "returned",
                          !.result = Some([ content |-> body.value ]),
                          !.trace = @ \o <<"return">> ]
     ELSE ExceptHandler(called, body.raised[1])

\* ------------------------------------------------------------- the system
NoEngine == EngineFields("", "", "", 0, None)

Init ==
  /\ engine = NoEngine
  /\ given = [ voice |-> "", model |-> "" ]
  /\ initAttempts = 0
  /\ ctorRaised = None
  /\ pc = "new"
  /\ call = IdleCall
  /\ callsStarted = 0
  /\ twin = IdleCall

Construct(voice, model, clientOutcome) ==
  /\ pc = "new"
  /\ initAttempts' = initAttempts + 1
  /\ given' = [ voice |-> voice, model |-> model ]
  /\ LET made == InitClient(clientOutcome) IN
     IF IsNone(made.raised)
     THEN /\ engine' = EngineFields("key", voice, model, CtorSpeed, None)
          /\ pc' = "ready"
          /\ ctorRaised' = None
     ELSE /\ engine' = NoEngine
          /\ pc' = "ctor_failed"
          /\ ctorRaised' = made.raised
  /\ UNCHANGED <<call, callsStarted, twin>>

GetTts(args) ==
  /\ pc = "ready"
  /\ call.status # "loop"
  /\ callsStarted < MaxCalls
  /\ call' = GetTtsBegin(engine, args)
  /\ callsStarted' = callsStarted + 1
  /\ UNCHANGED <<engine, given, initAttempts, ctorRaised, pc, twin>>

Attempt(remote) ==
  /\ pc = "ready"
  /\ call.status = "loop"
  /\ call' = GetTtsAttempt(engine, call, remote)
  /\ UNCHANGED <<engine, given, initAttempts, ctorRaised, pc, callsStarted, twin>>

\* def close(self): pass
Close ==
  /\ pc = "ready"
  /\ call.status # "loop"
  /\ UNCHANGED vars

Next ==
  \/ \E v \in CtorVoices, m \in CtorModels, o \in ClientOutcomes : Construct(v, m, o)
  \/ \E a \in CallArgs : GetTts(a)
  \/ \E r \in RemoteOutcomes : Attempt(r)
  \/ Close

Spec == Init /\ [][Next]_vars

\* ------------------------------------------------ two calls side by side
\* The same engine serves a call and a second call that differs from it in
\* the speed argument only; both meet the same outcomes of the remote calls.
PairGetTts(args, speed2) ==
  /\ pc = "ready"
  /\ call.status = "idle"
  /\ call' = GetTtsBegin(engine, args)
  /\ twin' = GetTtsBegin(engine, [ args EXCEPT !.speed = speed2 ])
  /\ callsStarted' = callsStarted + 1
  /\ UNCHANGED <<engine, given, initAttempts, ctorRaised, pc>>

PairAttempt(remote) ==
  /\ pc = "ready"
  /\ call.status = "loop" \/ twin.status = "loop"
  /\ call' = IF call.status = "loop" THEN GetTtsAttempt(engine, call, remote) ELSE call
  /\ twin' = IF twin.status = "loop" THEN GetTtsAttempt(engine, twin, remote) ELSE twin
  /\ UNCHANGED <<engine, given, initAttempts, ctorRaised, pc, callsStarted>>

NextPair ==
  \/ \E v \in CtorVoices, m \in CtorModels, o \in ClientOutcomes : Construct(v, m, o)
  \/ \E a \in CallArgs, s \in SpeedArgs : PairGetTts(a, s)
  \/ \E r \in RemoteOutcomes : PairAttempt(r)

SpecPair == Init /\ [][NextPair]_vars

\* ================================================================ claims
Count(trace, ev) == Len(SelectSeq(trace, LAMBDA e : e = ev))
NoWarn(trace) == SelectSeq(trace, LAMBDA e : e # "warning")
Finished(c) == c.status \in { "returned", "raised" }
HomeAssistantError == "HomeAssistantError"
FinalMsg == "Failed to fetch TTS audio from Gemini after retries"
LastRaised(c) == ~IsNone(c.remote) /\ ~IsNone(c.remote[1].raised)
LastReturned(c) == ~IsNone(c.remote) /\ IsNone(c.remote[1].raised)
FailThenSleep == <<"generate_content", "log_exception", "sleep", "log_retry">>

\* The response shapes the specification calls empty or malformed.
ZeroCandidates(r) == IsNone(r.candidates) \/ r.candidates[1] = <<>>
NoContentOrParts(r) ==
  /\ ~ZeroCandidates(r)
  /\ LET content == r.candidates[1][1].content IN
     \/ IsNone(content)
     \/ IsNone(content[1].parts)
     \/ content[1].parts[1] = <<>>
NoInlineData(r) ==
  /\ ~ZeroCandidates(r)
  /\ ~NoContentOrParts(r)
  /\ LET part == r.candidates[1][1].content[1].parts[1][1] IN
     \/ IsNone(part.inlineData)
     \/ IsNone(part.inlineData[1].data)
Malformed(r) == ZeroCandidates(r) \/ NoContentOrParts(r) \/ NoInlineData(r)
InlineDataOf(r) == r.candidates[1][1].content[1].parts[1][1].inlineData[1].data[1]
\* A well-formed response: the whole path to the inline data is present.
WellFormed(r) == ~Malformed(r)
\* Base64 text that standard decoding accepts.
Decodable(data) == IsNone(b64decode(Some(data)).raised)

\* Known answers of standard base64 decoding: "QQ==" -> "A", "QQQ=" ->
\* "A\x04", "QQQQ" -> "A\x04\x10", "" -> "", "Q\nQ=\n=" -> "A".
KnownVectors ==
  { << <<16, 16, 64, 64>>, <<65>> >>,
    << <<16, 16, 16, 64>>, <<65, 4>> >>,
    << <<16, 16, 16, 16>>, <<65, 4, 16>> >>,
    << <<>>, <<>> >>,
    << <<16, 65, 16, 64, 65, 64>>, <<65>> >> }

\* C1: when the remote call raised on both attempts of a call, exactly two
\* remote calls were made (never a third) and get_tts raised the final
\* HomeAssistantError, whose cause is the exception of the second attempt.
C1_TwoAttemptsThenFinalError ==
  /\ Len(call.requests) <= 2
  /\ ( /\ Len(call.requests) = 2
       /\ call.errors[1] \in RemoteErrors
       /\ LastRaised(call) )
     => /\ call.status = "raised"
        /\ Count(call.trace, "generate_content") = 2
        /\ call.raised = Some(Exc(HomeAssistantError, FinalMsg, call.remote[1].raised))

C1_Witness ==
  /\ call.status = "raised"
  /\ Len(call.requests) = 2
  /\ call.errors[1] \in RemoteErrors
  /\ LastRaised(call)
  /\ call.remote[1].raised[1] # call.errors[1]

\* C2 as stated: when the remote call raised on attempt 1 and returned a
\* well-formed response on attempt 2, get_tts returned an AudioResponse
\* holding the base64-decoded bytes of attempt 2's inline data, after exactly
\* one delay of one second between the failure of attempt 1 and attempt 2.
C2_RetrySucceeds ==
  ( /\ Len(call.requests) = 2
    /\ call.errors[1] \in RemoteErrors
    /\ LastReturned(call)
    /\ WellFormed(call.remote[1].value) )
  => LET data == InlineDataOf(call.remote[1].value) IN
     /\ call.status = "returned"
     /\ call.result = Some([ content |-> b64decode(Some(data)).value ])
     /\ call.delays = <<1>>
     /\ NoWarn(call.trace) = FailThenSleep \o <<"generate_content", "return">>

\* C2 as amended: the same, for a well-formed response whose inline data is
\* valid base64 text; the bytes returned are those of standard base64
\* decoding (checked against known answers).
C2_RetrySucceedsOnValidBase64 ==
  ( /\ Len(call.requests) = 2
    /\ call.errors[1] \in RemoteErrors
    /\ LastReturned(call)
    /\ WellFormed(call.remote[1].value)
    /\ Decodable(InlineDataOf(call.remote[1].value)) )
  => LET data == InlineDataOf(call.remote[1].value) IN
     /\ call.status = "returned"
     /\ call.result = Some([ content |-> b64decode(Some(data)).value ])
     /\ \A kv \in KnownVectors : data = kv[1] => call.result[1].content = kv[2]
     /\ call.delays = <<1>>
     /\ NoWarn(call.trace) = FailThenSleep \o <<"generate_content", "return">>

C2_Witness ==
  /\ call.status = "returned"
  /\ Len(call.requests) = 2
  /\ call.errors[1] \in RemoteErrors
  /\ InlineDataOf(call.remote[1].value) = <<16, 16, 16, 64>>
  /\ call.result[1].content = <<65, 4>>

\* C3: a remote call that returned a response with zero candidates, with a
\* first candidate without content or parts, or with a first part without
\* inline audio data is handled like a remote call that raised: no
\* AudioResponse is returned from that attempt; on attempt 1 one delay and a
\* second attempt follow, on attempt 2 the final HomeAssistantError.
C3_MalformedIsFailure ==
  (LastReturned(call) /\ Malformed(call.remote[1].value))
  => /\ call.status # "returned"
     /\ IsNone(call.result)
     /\ Len(call.errors) = Len(call.requests)
     /\ call.delays = <<1>>
     /\ Len(call.requests) = 1
        => /\ call.status = "loop"
           /\ call.attempt = 1
           /\ NoWarn(call.trace) = FailThenSleep
     /\ Len(call.requests) = 2
        => /\ call.status = "raised"
           /\ call.raised = Some(Exc(HomeAssistantError, FinalMsg, Some(call.errors[2])))
           /\ NoWarn(call.trace)
                = FailThenSleep \o <<"generate_content", "log_exception", "raise">>

C3_Witness ==
  /\ call.status = "raised"
  /\ Len(call.requests) = 2
  /\ LastReturned(call)
  /\ NoInlineData(call.remote[1].value)
  /\ call.errors[1].msg = "No audio returned from Gemini TTS"

\* C4: an exception raised while the request configuration is built (step 4)
\* is caught and logged inside the retried block, and one delay and one retry
\* follow it.
ConfigBuildRaised(c) == c.status # "idle" /\ IsNone(c.config)
C4_ConfigBuildIsRetried ==
  ConfigBuildRaised(call)
  => /\ Len(call.errors) >= 1
     /\ Count(call.trace, "log_exception") >= 1
     /\ Len(call.delays) >= 1

\* C5: whichever step fails, the exception that leaves __init__ or get_tts is
\* a HomeAssistantError, never the raw underlying exception.
C5_OnlyHomeAssistantError ==
  /\ ~IsNone(ctorRaised) => ctorRaised[1].type = HomeAssistantError
  /\ ~IsNone(call.raised) => call.raised[1].type = HomeAssistantError

\* C6: every request of a call carries the per-call voice if one was given and
\* the configured default otherwise, on both attempts; and whatever calls were
\* made, the engine's default voice and model are those given at construction.
C6_VoiceResolution ==
  /\ pc = "ready" => engine.voice = given.voice /\ engine.model = given.model
  /\ \A i \in DOMAIN call.requests :
       /\ call.requests[i].config.voice_name
            = (IF IsNone(call.args.voice) THEN given.voice ELSE call.args.voice[1])
       /\ call.requests[i].model = given.model

C6_Witness ==
  /\ callsStarted = 2
  /\ Len(call.requests) = 2
  /\ call.args.voice = Some("")
  /\ call.requests[2].config.voice_name = ""
  /\ engine.voice = "Kore"

\* C7 as stated: for every supplied instructions string X, the empty string
\* included, the prompt sent to the remote call is X, a newline, then text;
\* without an instructions argument it is text.
C7_PromptForEveryInstructions ==
  \A i \in DOMAIN call.requests :
    call.requests[i].contents
      = (IF IsNone(call.args.instructions)
         THEN call.args.text
         ELSE call.args.instructions[1] \o <<"\n">> \o call.args.text)

\* C7 as amended: for every non-empty instructions string X the prompt sent to
\* the remote call is X, a newline, then text; when the instructions argument
\* is absent or the empty string the prompt is text unmodified.
C7_PromptForNonEmptyInstructions ==
  \A i \in DOMAIN call.requests :
    call.requests[i].contents
      = (IF IsNone(call.args.instructions) \/ call.args.instructions = Some(<<>>)
         THEN call.args.text
         ELSE call.args.instructions[1] \o <<"\n">> \o call.args.text)

C7_Witness ==
  /\ Len(call.requests) = 2
  /\ call.args.instructions = Some(<<"s", "l", "o", "w", ":">>)
  /\ call.args.text = <<"h", "i">>
  /\ call.requests[2].contents = <<"s", "l", "o", "w", ":", "\n", "h", "i">>

\* C8: a call given a speed (0 included) emits the warning exactly once, and
\* the speed has no effect: two calls that differ in speed only send the same
\* (model, prompt, config) on every attempt and, under the same outcomes of
\* the remote calls, make the same attempts and end in the same result or
\* error.
C8_SpeedHasNoEffect ==
  /\ \A c \in { call, twin } :
       c.status # "idle"
       => Count(c.trace, "warning") = (IF IsNone(c.args.speed) THEN 0 ELSE 1)
  /\ call.requests = twin.requests
  /\ call.status = twin.status
  /\ call.attempt = twin.attempt
  /\ call.result = twin.result
  /\ call.raised = twin.raised
  /\ call.delays = twin.delays
  /\ NoWarn(call.trace) = NoWarn(twin.trace)

C8_Witness ==
  /\ call.args.speed = Some(0)
  /\ IsNone(twin.args.speed)
  /\ call.status = "returned"
  /\ Len(call.requests) = 2
  /\ Len(twin.requests) = 2
  /\ Count(call.trace, "warning") = 1

\* C9: when the vendor client fails to initialize, the constructor has made
\* one initialization attempt, without delay or retry, and raised a
\* HomeAssistantError that wraps the client's exception; there is no engine
\* and no remote synthesis call is made.
C9_ConstructorFailsFast ==
  /\ initAttempts <= 1
  /\ pc = "ctor_failed"
     => /\ initAttempts = 1
        /\ ~IsNone(ctorRaised)
        /\ ctorRaised[1].type = HomeAssistantError
        /\ ctorRaised[1].cause \in { Some(e) : e \in ClientErrors }
        /\ engine = NoEngine
        /\ call = IdleCall
        /\ callsStarted = 0
  /\ pc = "ready" => IsNone(ctorRaised)

C9_Witness ==
  /\ pc = "ctor_failed"
  /\ ctorRaised[1].cause = Some(Exc("ConnectError", "network", None))

\* C10: every call ends after 1 or 2 remote attempts, and its number of
\* one-second delays is its number of attempts minus one.
C10_AttemptsAndDelays ==
  Finished(call)
  => /\ Len(call.requests) \in { 1, 2 }
     /\ Len(call.delays) = Len(call.requests) - 1

====
